---- MODULE Spec2Model ----
(***************************************************************************)
(* Real-time Quran recitation tracker: the per-session state              *)
(* (backend/session_manager.py) and the audio_chunk pipeline               *)
(* (backend/app.py, handle_audio_chunk).                                   *)
(*                                                                         *)
(* Scores and confidences are floats in [0,1] in the source; here they    *)
(* are integers in hundredths (0.4 is 40).  Durations are seconds.        *)
(***************************************************************************)
EXTENDS Integers, Sequences, FiniteSets, TLC

\* ------------------------------------------------------------ bounds
\* Number of audio chunks that arrive over a run of the pipeline.
MaxChunks == 2
\* Size of the flattened reference word sequence (global indices 0..NumWords).
NumWords == 2
\* Longest match list an alignment returns.
MaxMatches == 2
\* Direct SessionManager calls: cap of the low-confidence streak counter.
MaxStreak == 5
\* Direct SessionManager calls: cap of the number of chunks held in a ring.
MaxRing == 3
\* Direct SessionManager calls: cap of the duration counter.
MaxDuration == 12

\* --------------------------------------------------- program constants
CONFIDENCE_THRESHOLD == 40
SEGMENT_THRESHOLD == 50
MAX_LOW_CONFIDENCE == 3
AUDIO_BUFFER_MAX_DURATION == 8
ESTIMATED_DURATION == 2
CHUNK_DURATION == 2
WAV_HEADER == 44

\* Session ids of direct SessionManager calls.
SIDs == {"s1", "s2"}
\* Session ids of direct calls on the audio ring.
RingSIDs == {"s1"}
\* Session ids of the clients of the pipeline.
Clients == {"s1"}
\* Scores an alignment may return: both sides of both thresholds.
Scores == {39, 40, 50}
\* Durations a caller of add_audio_to_buffer may pass.
Durations == {0, 2, 3, 9}
\* A byte string is a sequence of runs [src, from, to]: the bytes from..to
\* (counted from 1) of the blob src.  The empty sequence is b''.
Blob(src, n) == IF n = 0 THEN <<>> ELSE <<[src |-> src, from |-> 1, to |-> n]>>

\* WAV payloads a caller of add_audio_to_buffer may pass: a bare 44-byte
\* header, and a header with one byte of samples.
Wavs == {Blob("w1", WAV_HEADER), Blob("w2", WAV_HEADER + 1)}

Max(a, b) == IF a >= b THEN a ELSE b

\* webm_header = None
None == <<>>

VARIABLES
  sessions,   \* SessionManager.sessions: dict sid -> SessionState
  handlers,   \* audio_chunk handlers in flight: chunk id -> its local variables
  running,    \* chunk id of the handler that holds the green thread, 0 if none
  arrived,    \* number of audio chunks received so far
  connected,  \* sids of the connected clients
  opened,     \* sids that have connected at some time (a sid is never reused)
  emitted_upto, \* per sid: the highest chunk id that has emitted an event (observer)
  lowrun,     \* per record: consecutive low-confidence updates seen (observer)
  held,       \* per record: the durations passed with the chunks its ring holds (observer)
  asr,        \* asr_backend: the cached choice, the environment and the config value
  last        \* the operation that produced the current state (observer)

vars == <<sessions, handlers, running, arrived, connected, opened, emitted_upto, lowrun,
          held, asr, last>>

\* ------------------------------------------------- SessionManager
\* SessionState(): the dataclass defaults.
SessionState ==
  [global_word_pos |-> 0,
   last_confidence |-> 0,
   mode |-> "tracking",
   consecutive_low_confidence |-> 0,
   webm_header |-> None,
   audio_buffer_wav |-> <<>>,
   audio_buffer_duration |-> 0,
   max_buffer_duration |-> 8]

\* A plausible slip: the list of a new record is not its own (a shared
\* mutable default): it is the ring of a record already in the map.
create_session_shared_ring(ss, sid) ==
  LET others == (DOMAIN ss) \ {sid}
      ring == IF others = {} THEN <<>>
              ELSE ss[CHOOSE t \in others : TRUE].audio_buffer_wav
  IN [s \in (DOMAIN ss) \cup {sid} |->
        IF s = sid
        THEN [SessionState EXCEPT !.max_buffer_duration = AUDIO_BUFFER_MAX_DURATION,
                                  !.audio_buffer_wav = ring]
        ELSE ss[s]]

\* A plausible slip: a record already in the map is kept (setdefault).
create_session_keep_existing(ss, sid) ==
  [s \in (DOMAIN ss) \cup {sid} |->
     IF s \in DOMAIN ss
     THEN ss[s]
     ELSE [SessionState EXCEPT !.max_buffer_duration = AUDIO_BUFFER_MAX_DURATION]]

\* create_session: a fresh record, its cap taken from the manager, stored under sid.
create_session(ss, sid) ==
  [s \in (DOMAIN ss) \cup {sid} |->
     IF s = sid
     THEN [SessionState EXCEPT !.max_buffer_duration = AUDIO_BUFFER_MAX_DURATION]
     ELSE ss[s]]

\* get_session: the map after the lookup (the record is created when missing).
get_session(ss, sid) ==
  IF sid \notin DOMAIN ss THEN create_session(ss, sid) ELSE ss

\* A plausible slip: the delete empties the whole map.
delete_session_all(ss, sid) == << >>

delete_session(ss, sid) ==
  [s \in (DOMAIN ss) \ {sid} |-> ss[s]]

has_session(ss, sid) == sid \in DOMAIN ss

\* A plausible slip: the anchor is overwritten instead of only moved forward.
NewPosOverwrite(old, furthest) == furthest

\* line 58: max(state.global_word_pos, furthest_global_index)
NewPos(old, furthest) == Max(old, furthest)

\* A plausible slip: a confident chunk leaves the streak instead of clearing it.
NewStreakNoReset(old, confidence) ==
  IF confidence < CONFIDENCE_THRESHOLD THEN old + 1 ELSE old

\* A plausible slip: <= instead of < in the low-confidence test.
NewStreakLe(old, confidence) ==
  IF confidence <= CONFIDENCE_THRESHOLD THEN old + 1 ELSE 0

\* lines 64-67
NewStreak(old, confidence) ==
  IF confidence < CONFIDENCE_THRESHOLD THEN old + 1 ELSE 0

\* A plausible slip: > instead of >= in the switch to search mode.
NewModeGt(streak) ==
  IF streak > MAX_LOW_CONFIDENCE THEN "search" ELSE "tracking"

\* A plausible slip: = instead of >= in the switch to search mode.
NewModeEq(streak) ==
  IF streak = MAX_LOW_CONFIDENCE THEN "search" ELSE "tracking"

\* lines 70-73
NewMode(streak) ==
  IF streak >= MAX_LOW_CONFIDENCE THEN "search" ELSE "tracking"

update_from_alignment(ss, sid, confidence, furthest_global_index) ==
  LET m == get_session(ss, sid)
      state == m[sid]
      streak == NewStreak(state.consecutive_low_confidence, confidence)
  IN [m EXCEPT ![sid] =
        [state EXCEPT
           !.global_word_pos = NewPos(state.global_word_pos, furthest_global_index),
           !.last_confidence = confidence,
           !.consecutive_low_confidence = streak,
           !.mode = NewMode(streak)]]

\* A plausible slip: the loop also evicts the sole remaining chunk.
KeepTrimmingAll(wavs, duration, cap) ==
  duration > cap /\ Len(wavs) > 0

\* A plausible slip: the loop stops one chunk early.
KeepTrimmingEarlyStop(wavs, duration, cap) ==
  duration > cap /\ Len(wavs) > 2

\* lines 91-92: the loop condition
KeepTrimming(wavs, duration, cap) ==
  duration > cap /\ Len(wavs) > 1

\* A plausible slip: the loop evicts without reducing the duration counter.
RECURSIVE TrimNoSubtract(_, _, _)
TrimNoSubtract(wavs, duration, cap) ==
  IF KeepTrimming(wavs, duration, cap)
  THEN TrimNoSubtract(Tail(wavs), duration, cap)
  ELSE <<wavs, duration>>

\* lines 91-97: the eviction loop, as <<chunks, duration>>
RECURSIVE Trim(_, _, _)
Trim(wavs, duration, cap) ==
  IF KeepTrimming(wavs, duration, cap)
  THEN Trim(Tail(wavs), duration - ESTIMATED_DURATION, cap)
  ELSE <<wavs, duration>>

add_audio_to_buffer(ss, sid, wav_bytes, duration) ==
  LET m == get_session(ss, sid)
      state == m[sid]
      t == Trim(Append(state.audio_buffer_wav, wav_bytes),
                state.audio_buffer_duration + duration,
                state.max_buffer_duration)
  IN [m EXCEPT ![sid] =
        [state EXCEPT !.audio_buffer_wav = t[1], !.audio_buffer_duration = t[2]]]

\* A plausible slip: the list is emptied and the duration counter is left.
clear_audio_buffer_list_only(ss, sid) ==
  LET m == get_session(ss, sid)
  IN [m EXCEPT ![sid] = [m[sid] EXCEPT !.audio_buffer_wav = <<>>]]

clear_audio_buffer(ss, sid) ==
  LET m == get_session(ss, sid)
  IN [m EXCEPT ![sid] =
        [m[sid] EXCEPT !.audio_buffer_wav = <<>>, !.audio_buffer_duration = 0]]

\* A plausible slip: the reset forgets the cached codec header.
reset_session_progress_keeps_header(ss, sid) ==
  LET m == get_session(ss, sid)
      r == [m EXCEPT ![sid] =
              [m[sid] EXCEPT !.global_word_pos = 0,
                             !.last_confidence = 0,
                             !.mode = "tracking",
                             !.consecutive_low_confidence = 0]]
  IN clear_audio_buffer(r, sid)

reset_session_progress(ss, sid) ==
  LET m == get_session(ss, sid)
      r == [m EXCEPT ![sid] =
              [m[sid] EXCEPT !.global_word_pos = 0,
                             !.last_confidence = 0,
                             !.mode = "tracking",
                             !.consecutive_low_confidence = 0,
                             !.webm_header = None]]
  IN clear_audio_buffer(r, sid)

\* len(b)
RECURSIVE ByteLen(_)
ByteLen(b) ==
  IF b = <<>> THEN 0 ELSE (b[1].to - b[1].from + 1) + ByteLen(Tail(b))

\* b[n:]
RECURSIVE DropBytes(_, _)
DropBytes(b, n) ==
  IF b = <<>> \/ n = 0 THEN b
  ELSE LET run == b[1].to - b[1].from + 1
       IN IF n >= run
          THEN DropBytes(Tail(b), n - run)
          ELSE <<[b[1] EXCEPT !.from = @ + n]>> \o Tail(b)

\* A plausible slip: a chunk of 44 bytes or fewer is written whole.
StripHeaderKeepShort(chunk) ==
  IF ByteLen(chunk) > WAV_HEADER THEN DropBytes(chunk, WAV_HEADER) ELSE chunk

\* lines 126-127: what a later chunk contributes
StripHeader(chunk) ==
  IF ByteLen(chunk) > WAV_HEADER THEN DropBytes(chunk, WAV_HEADER) ELSE <<>>

\* lines 125-127: the loop over audio_buffer_wav[1:]
RECURSIVE Combined(_)
Combined(chunks) ==
  IF chunks = <<>> THEN <<>> ELSE StripHeader(chunks[1]) \o Combined(Tail(chunks))

\* get_cumulative_audio: the bytes it returns for the ring of sid.
get_cumulative_audio(ss, sid) ==
  LET wavs == get_session(ss, sid)[sid].audio_buffer_wav
  IN IF wavs = <<>> THEN <<>>
     ELSE IF Len(wavs) = 1 THEN wavs[1]
     ELSE wavs[1] \o Combined(Tail(wavs))

\* ------------------------------------------------------ observers
\* The record of sid as a 0- or 1-element sequence (absent or present).
RecordOf(ss, sid) == IF sid \in DOMAIN ss THEN <<ss[sid]>> ELSE <<>>

\* Consecutive low-confidence updates a record has seen, counted from the
\* arguments of update_from_alignment and not from the record's own counter.
LowRunOf(lr, ss, sid) == IF sid \in DOMAIN ss /\ sid \in DOMAIN lr THEN lr[sid] ELSE 0

LowRunAfterUpdate(lr, ss, sid, confidence) ==
  [s \in (DOMAIN ss) \cup {sid} |->
     IF s = sid
     THEN (IF confidence < CONFIDENCE_THRESHOLD THEN LowRunOf(lr, ss, sid) + 1 ELSE 0)
     ELSE LowRunOf(lr, ss, s)]

\* After an operation that leaves the streak alone (ss2 is the map after it).
LowRunKeep(lr, ss, ss2) == [s \in DOMAIN ss2 |-> LowRunOf(lr, ss, s)]

\* After an operation that starts sid's record afresh.
LowRunFresh(lr, ss, ss2, sid) ==
  [s \in DOMAIN ss2 |-> IF s = sid THEN 0 ELSE LowRunOf(lr, ss, s)]

\* The durations that came with the chunks in sid's ring, oldest first.
HeldOf(h, ss, sid) == IF sid \in DOMAIN ss /\ sid \in DOMAIN h THEN h[sid] ELSE <<>>

\* After an operation that leaves the rings alone (ss2 is the map after it).
HeldKeep(h, ss, ss2) == [s \in DOMAIN ss2 |-> HeldOf(h, ss, s)]

\* After an operation that empties sid's ring.
HeldFresh(h, ss, ss2, sid) ==
  [s \in DOMAIN ss2 |-> IF s = sid THEN <<>> ELSE HeldOf(h, ss, s)]

\* After an append to sid's ring: the new duration joins at the back, and
\* as many leave at the front as the ring has evicted.
HeldAfterAdd(h, ss, ss2, sid, duration) ==
  [s \in DOMAIN ss2 |->
     IF s = sid
     THEN LET all == Append(HeldOf(h, ss, sid), duration)
              kept == Len(ss2[sid].audio_buffer_wav)
          IN SubSeq(all, Max(1, Len(all) - kept + 1), Len(all))
     ELSE HeldOf(h, ss, s)]

\* The mode of sid's record, "" when there is none.
ModeOf(ss, sid) == IF sid \in DOMAIN ss THEN ss[sid].mode ELSE ""

\* What `last` records of a step: the operation, its session and chunk, the
\* arguments of an update or an append, the mode the record had before an
\* update, for a chunk that ended in an error whether its handler has changed
\* the session record, the events the chunk's handler has emitted so far,
\* the payload of an append and the number of chunks it evicted, and the
\* bytes a get_cumulative_audio returned.
NoOp == [op |-> "init", sid |-> "", chunk |-> 0, confidence |-> 0, furthest |-> 0,
         duration |-> 0, mode_before |-> "", changed |-> FALSE, sent |-> <<>>,
         wav |-> <<>>, evicted |-> 0, audio |-> <<>>, before |-> <<>>,
         dispatched |-> "", outcome |-> ""]

Op(name, sid, chunk) == [NoOp EXCEPT !.op = name, !.sid = sid, !.chunk = chunk]

\* ---------------------------------------------------- asr_backend
\* Strings as sequences of characters.
Whisper == <<"w", "h", "i", "s", "p", "e", "r">>
Nemo == <<"n", "e", "m", "o">>

UpperCase == <<"A", "B", "C", "D", "E", "F", "G", "H", "I", "J", "K", "L", "M",
               "N", "O", "P", "Q", "R", "S", "T", "U", "V", "W", "X", "Y", "Z">>
LowerCase == <<"a", "b", "c", "d", "e", "f", "g", "h", "i", "j", "k", "l", "m",
               "n", "o", "p", "q", "r", "s", "t", "u", "v", "w", "x", "y", "z">>

\* str.lower()
Lower(str) ==
  [i \in 1..Len(str) |->
     IF \E k \in 1..26 : UpperCase[k] = str[i]
     THEN LowerCase[CHOOSE k \in 1..26 : UpperCase[k] = str[i]]
     ELSE str[i]]

\* The environment variable ASR_BACKEND: not set, or set to a string.
Unset == [set |-> FALSE, value |-> <<>>]
SetTo(str) == [set |-> TRUE, value |-> str]

\* Values the environment may hold.
EnvValues ==
  {Unset, SetTo(Whisper), SetTo(Nemo), SetTo(<<"N", "e", "M", "o">>),
   SetTo(<<"W", "H", "I", "S", "P", "E", "R">>), SetTo(<<"k", "a", "l", "d", "i">>),
   SetTo(<<>>), SetTo(<<"n", "e", "m", "o", " ">>)}

\* Values app_config.ASR_BACKEND may hold.
ConfigValues == {Nemo, Whisper, <<"N", "E", "M", "O">>, <<"w", "a", "v", "2", "v", "e", "c">>}

\* os.getenv(name, default)
getenv(env, default) == IF env.set THEN env.value ELSE default

\* The module when it has just been imported: no choice cached (line 16),
\* the config value of config.py.
AtImport(env) == [backend |-> None, env |-> env, config |-> Nemo]

\* A plausible slip: no cache, the environment is read at every call.
get_asr_backend_uncached(a) ==
  LET v == Lower(getenv(a.env, a.config))
  IN [a EXCEPT !.backend = <<IF v \in {Whisper, Nemo} THEN v ELSE Whisper>>]

\* _get_asr_backend: the module after the call; backend holds the value the
\* call returns.
_get_asr_backend(a) ==
  IF a.backend = None
  THEN LET v == Lower(getenv(a.env, a.config))
       IN [a EXCEPT !.backend = <<IF v \in {Whisper, Nemo} THEN v ELSE Whisper>>]
  ELSE a

\* transcribe_audio lines 300-305: the function the call is handed to.
Dispatch(backend) ==
  IF backend = Whisper THEN "whisper_transcribe_wav_bytes"
  ELSE IF backend = Nemo THEN "nemo_transcribe_wav_bytes"
  ELSE "RuntimeError"

\* The bytes of audio chunk c, as a sequence of segments.
AudioData(c) == <<[chunk |-> c, part |-> "all"]>>

\* A plausible slip: the whole chunk is cached as the header.
First500Whole(data) == data

\* audio_data[:500]
First500(data) == <<[chunk |-> data[1].chunk, part |-> "first500"]>>

\* ------------------------------------- SessionManager called directly
PipelineIdle ==
  UNCHANGED <<handlers, running, arrived, connected, opened, emitted_upto, asr>>

Init ==
  /\ sessions = << >>
  /\ handlers = << >>
  /\ running = 0
  /\ arrived = 0
  /\ connected = {}
  /\ opened = {}
  /\ emitted_upto = [s \in SIDs |-> 0]
  /\ lowrun = << >>
  /\ held = << >>
  /\ asr = _get_asr_backend(AtImport(Unset))
  /\ last = NoOp

MgrCreate(sid) ==
  /\ sessions' = create_session(sessions, sid)
  /\ lowrun' = LowRunFresh(lowrun, sessions, sessions', sid)
  /\ held' = HeldFresh(held, sessions, sessions', sid)
  /\ last' = [Op("create_session", sid, 0) EXCEPT !.before = RecordOf(sessions, sid)]
  /\ PipelineIdle

MgrGet(sid) ==
  /\ sessions' = get_session(sessions, sid)
  /\ lowrun' = LowRunKeep(lowrun, sessions, sessions')
  /\ held' = HeldKeep(held, sessions, sessions')
  /\ last' = Op("get_session", sid, 0)
  /\ PipelineIdle

MgrDelete(sid) ==
  /\ sessions' = delete_session(sessions, sid)
  /\ lowrun' = LowRunKeep(lowrun, sessions, sessions')
  /\ held' = HeldKeep(held, sessions, sessions')
  /\ last' = Op("delete_session", sid, 0)
  /\ PipelineIdle

MgrUpdate(sid, confidence, furthest) ==
  /\ confidence < CONFIDENCE_THRESHOLD =>
       LowRunOf(lowrun, sessions, sid) < MaxStreak
  /\ sessions' = update_from_alignment(sessions, sid, confidence, furthest)
  /\ lowrun' = LowRunAfterUpdate(lowrun, sessions, sid, confidence)
  /\ held' = HeldKeep(held, sessions, sessions')
  /\ last' = [Op("update_from_alignment", sid, 0) EXCEPT
                !.confidence = confidence, !.furthest = furthest,
                !.mode_before = ModeOf(sessions, sid)]
  /\ PipelineIdle

MgrAdd(sid, wav, duration) ==
  /\ sid \in DOMAIN sessions =>
       /\ Len(sessions[sid].audio_buffer_wav) < MaxRing
       /\ sessions[sid].audio_buffer_duration + duration <= MaxDuration
  /\ sessions' = add_audio_to_buffer(sessions, sid, wav, duration)
  /\ lowrun' = LowRunKeep(lowrun, sessions, sessions')
  /\ held' = HeldAfterAdd(held, sessions, sessions', sid, duration)
  /\ last' = [Op("add_audio_to_buffer", sid, 0) EXCEPT
                !.duration = duration, !.wav = wav,
                !.evicted = Len(get_session(sessions, sid)[sid].audio_buffer_wav) + 1
                            - Len(sessions'[sid].audio_buffer_wav)]
  /\ PipelineIdle

MgrClear(sid) ==
  /\ sessions' = clear_audio_buffer(sessions, sid)
  /\ lowrun' = LowRunKeep(lowrun, sessions, sessions')
  /\ held' = HeldFresh(held, sessions, sessions', sid)
  /\ last' = [Op("clear_audio_buffer", sid, 0) EXCEPT !.before = RecordOf(sessions, sid)]
  /\ PipelineIdle

\* get_cumulative_audio called directly: the lookup may create the record.
MgrCumulative(sid) ==
  /\ sessions' = get_session(sessions, sid)
  /\ lowrun' = LowRunKeep(lowrun, sessions, sessions')
  /\ held' = HeldKeep(held, sessions, sessions')
  /\ last' = [Op("get_cumulative_audio", sid, 0) EXCEPT
                !.audio = get_cumulative_audio(sessions, sid)]
  /\ PipelineIdle

MgrReset(sid) ==
  /\ sessions' = reset_session_progress(sessions, sid)
  /\ lowrun' = LowRunFresh(lowrun, sessions, sessions', sid)
  /\ held' = HeldFresh(held, sessions, sessions', sid)
  /\ last' = [Op("reset_session_progress", sid, 0) EXCEPT
                !.before = RecordOf(sessions, sid)]
  /\ PipelineIdle

\* handle_audio_chunk lines 293-306 taken alone: the lookup and the write of
\* the codec header into a record that has none (the one write to a record
\* that does not go through a SessionManager method).
StoreHeader(sid) ==
  /\ LET m == get_session(sessions, sid)
     IN sessions' = IF m[sid].webm_header = None
                    THEN [m EXCEPT ![sid].webm_header = First500(AudioData(1))]
                    ELSE m
  /\ lowrun' = LowRunKeep(lowrun, sessions, sessions')
  /\ held' = HeldKeep(held, sessions, sessions')
  /\ last' = Op("store_header", sid, 0)
  /\ PipelineIdle

\* The anchor and mode controller driven by any caller.
MgrNext ==
  \/ \E sid \in SIDs : MgrCreate(sid)
  \/ \E sid \in SIDs : MgrGet(sid)
  \/ \E sid \in SIDs : MgrDelete(sid)
  \/ \E sid \in SIDs, c \in Scores, f \in 0..NumWords : MgrUpdate(sid, c, f)
  \/ \E sid \in SIDs : MgrReset(sid)

SpecManager == Init /\ [][MgrNext]_vars

\* Every operation of the SessionManager called by any caller on two
\* sessions: the appends and the header write as handle_audio_chunk makes
\* them, the updates with any score and the last word as furthest index.
CallsNext ==
  \/ \E sid \in SIDs : MgrCreate(sid)
  \/ \E sid \in SIDs : MgrGet(sid)
  \/ \E sid \in SIDs : MgrDelete(sid)
  \/ \E sid \in SIDs, c \in Scores : MgrUpdate(sid, c, NumWords)
  \/ \E sid \in SIDs : MgrAdd(sid, Blob("w2", WAV_HEADER + 1), CHUNK_DURATION)
  \/ \E sid \in SIDs : MgrCumulative(sid)
  \/ \E sid \in SIDs : MgrClear(sid)
  \/ \E sid \in SIDs : MgrReset(sid)
  \/ \E sid \in SIDs : StoreHeader(sid)

SpecCalls == Init /\ [][CallsNext]_vars

\* handle_audio_chunk line 335 taken alone: the ring append of a decoded
\* chunk, with the fixed duration the handler passes.
AppendDecoded(sid, wav) ==
  /\ sessions' = add_audio_to_buffer(sessions, sid, wav, CHUNK_DURATION)
  /\ lowrun' = LowRunKeep(lowrun, sessions, sessions')
  /\ held' = HeldAfterAdd(held, sessions, sessions', sid, CHUNK_DURATION)
  /\ last' = [Op("add_audio_to_buffer", sid, 0) EXCEPT
                !.duration = CHUNK_DURATION, !.wav = wav,
                !.evicted = Len(get_session(sessions, sid)[sid].audio_buffer_wav) + 1
                            - Len(sessions'[sid].audio_buffer_wav)]
  /\ PipelineIdle

\* The ring as the chunk pipeline drives it, over any number of chunks:
\* sessions are opened and closed and decoded chunks are appended.
AppendsNext ==
  \/ \E sid \in SIDs : MgrCreate(sid)
  \/ \E sid \in SIDs : MgrDelete(sid)
  \/ \E sid \in SIDs, w \in Wavs : AppendDecoded(sid, w)

SpecAppends == Init /\ [][AppendsNext]_vars

\* The audio ring driven by any caller.
RingNext ==
  \/ \E sid \in RingSIDs : MgrCreate(sid)
  \/ \E sid \in RingSIDs : MgrDelete(sid)
  \/ \E sid \in RingSIDs, w \in Wavs, d \in Durations : MgrAdd(sid, w, d)
  \/ \E sid \in RingSIDs : MgrCumulative(sid)
  \/ \E sid \in RingSIDs : MgrClear(sid)
  \/ \E sid \in RingSIDs : MgrReset(sid)

SpecRing == Init /\ [][RingNext]_vars


\* ------------------------------------------- asr_backend called directly
BackendOnly ==
  UNCHANGED <<sessions, handlers, running, arrived, connected, opened, emitted_upto,
              lowrun, held>>

\* The module is imported, in any environment.
InitBackend ==
  /\ sessions = << >>
  /\ handlers = << >>
  /\ running = 0
  /\ arrived = 0
  /\ connected = {}
  /\ opened = {}
  /\ emitted_upto = [s \in SIDs |-> 0]
  /\ lowrun = << >>
  /\ held = << >>
  /\ \E env \in EnvValues : asr = AtImport(env)
  /\ last = NoOp

\* The environment variable is set or removed.
SetEnv(env) ==
  /\ env # asr.env
  /\ asr' = [asr EXCEPT !.env = env]
  /\ last' = Op("setenv", "", 0)
  /\ BackendOnly

\* app_config.ASR_BACKEND is assigned.
SetConfig(value) ==
  /\ value # asr.config
  /\ asr' = [asr EXCEPT !.config = value]
  /\ last' = Op("setconfig", "", 0)
  /\ BackendOnly

\* initialize_backend: the lookup of the backend (the loading of the model
\* or client that follows does not touch the choice).
InitializeBackend ==
  /\ asr' = _get_asr_backend(asr)
  /\ last' = Op("initialize_backend", "", 0)
  /\ BackendOnly

\* get_backend_info
GetBackendInfo ==
  /\ asr' = _get_asr_backend(asr)
  /\ last' = Op("get_backend_info", "", 0)
  /\ BackendOnly

\* transcribe_audio
TranscribeAudio ==
  /\ asr' = _get_asr_backend(asr)
  /\ last' = [Op("transcribe_audio", "", 0) EXCEPT
                !.dispatched = Dispatch(asr'.backend[1])]
  /\ BackendOnly

BackendNext ==
  \/ \E env \in EnvValues : SetEnv(env)
  \/ \E value \in ConfigValues : SetConfig(value)
  \/ InitializeBackend
  \/ GetBackendInfo
  \/ TranscribeAudio

SpecBackend == InitBackend /\ [][BackendNext]_vars

\* ------------------------------------------------ the chunk pipeline
\* The external decoder's output for its input (ffmpeg, webm to wav).
Decode(process_data) == [wav_of |-> process_data]


\* What the transcriber call may do: raise RuntimeError, raise another
\* exception, or return a transcript.
TranscriberOutcomes == {"RuntimeError", "Exception", "blank", "marks", "words"}

\* transcription.strip() is empty
IsBlank(outcome) == outcome = "blank"

\* normalize_text(transcription).split(): a transcript of diacritics only
\* leaves no word.
SpokenWords(outcome) == IF outcome = "words" THEN <<"w">> ELSE <<>>

\* The match lists of an alignment: for each Match, whether it carries a
\* quran_word.
MatchLists == UNION {[1..n -> BOOLEAN] : n \in 0..MaxMatches}

\* align_transcript: the best candidate's score; its end k + L when the score
\* reaches SEGMENT_THRESHOLD and the anchor otherwise.
AlignResults(anchor_pos, mode) ==
  {[confidence |-> sc, segment_score |-> sc, furthest_global_index |-> f, matches |-> ms] :
     sc \in Scores,
     f \in 0..NumWords,
     ms \in MatchLists} \cap
  {r \in [confidence : Scores, segment_score : Scores,
          furthest_global_index : 0..NumWords, matches : MatchLists] :
     IF r.segment_score >= SEGMENT_THRESHOLD
     THEN r.furthest_global_index >= 1
     ELSE r.furthest_global_index = anchor_pos}

\* A plausible slip: a word_result for every Match, with or without a word.
MatchHasWordAlways(match) == TRUE

\* line 420: match.quran_word is set
MatchHasWord(match) == match

NoResult == [confidence |-> 0, segment_score |-> 0, furthest_global_index |-> 0,
             matches |-> <<>>]

\* A plausible slip: an error path without its return, the handler stays.
FinishLeaves(hs, c) == hs

\* A slip that would let other handlers in between align and the update:
\* the alignment handed to the thread pool, the handler waiting for it.
YieldsAtAlign(pc) == pc \in {"decode", "transcribe", "update"}

\* The calls at which a handler gives up the green thread: the external
\* decoder (line 321) and the external transcriber (line 349).  pc names
\* the call or step the handler does next.
Yields(pc) == pc \in {"decode", "transcribe"}

\* The handler may take a step: it holds the thread, or nobody does.
Scheduled(c) == c \in DOMAIN handlers /\ running \in {0, c}

\* The SessionState object the handler's local session_state refers to: the
\* record in the map, or the object as it was when the map let go of it.
Deref(c) ==
  IF handlers[c].attached THEN sessions[handlers[c].sid] ELSE handlers[c].snap

\* The handlers of sid lose the map's record (it is deleted or replaced):
\* their session_state keeps the object.
Detach(hs, ss, sid) ==
  [c \in DOMAIN hs |->
     IF hs[c].sid = sid /\ hs[c].attached
     THEN [hs[c] EXCEPT !.attached = FALSE, !.snap = ss[sid]]
     ELSE hs[c]]

Finish(hs, c) == [k \in (DOMAIN hs) \ {c} |-> hs[k]]

\* An emit() call: the event name and the fields of its payload that the
\* properties read (match: the index of the Match a word_result reports).
Event(event, error, message, match, pos, mode) ==
  [event |-> event, error |-> error, message |-> message, match |-> match,
   global_progress |-> pos, mode |-> mode]

ErrorEvent(error, message) == Event("word_result", error, message, 0, 0, "")

\* The step from ss to ss2 changes what the map holds for sid.
Changes(ss, ss2, sid) == RecordOf(ss2, sid) # RecordOf(ss, sid)

\* The high-water mark of sid after chunk c has emitted.
EmittedBy(sid, c) == [emitted_upto EXCEPT ![sid] = Max(@, c)]

\* handle_connect
Connect(sid) ==
  /\ running = 0
  /\ sid \notin opened
  /\ sessions' = create_session(sessions, sid)
  /\ handlers' = Detach(handlers, sessions, sid)
  /\ connected' = connected \cup {sid}
  /\ opened' = opened \cup {sid}
  /\ lowrun' = LowRunFresh(lowrun, sessions, sessions', sid)
  /\ held' = HeldFresh(held, sessions, sessions', sid)
  /\ last' = Op("connect", sid, 0)
  /\ UNCHANGED <<asr, running, arrived, emitted_upto>>

\* handle_disconnect
Disconnect(sid) ==
  /\ running = 0
  /\ sid \in connected
  /\ sessions' = delete_session(sessions, sid)
  /\ handlers' = Detach(handlers, sessions, sid)
  /\ connected' = connected \ {sid}
  /\ lowrun' = LowRunKeep(lowrun, sessions, sessions')
  /\ held' = HeldKeep(held, sessions, sessions')
  /\ last' = Op("disconnect", sid, 0)
  /\ UNCHANGED <<asr, running, arrived, opened, emitted_upto>>

\* handle_audio_chunk, lines 285-321: the lookup, the header patch and the
\* call of the decoder.
AudioChunk(sid) ==
  /\ running = 0
  /\ sid \in connected
  /\ arrived < MaxChunks
  /\ LET c == arrived + 1
         m == get_session(sessions, sid)
         first == m[sid].webm_header = None
         audio_data == AudioData(c)
         process_data == IF first THEN audio_data ELSE m[sid].webm_header \o audio_data
         after == IF first THEN [m EXCEPT ![sid].webm_header = First500(audio_data)] ELSE m
         h == [sid |-> sid, pc |-> "decode", attached |-> TRUE, snap |-> SessionState,
               changed |-> Changes(sessions, after, sid), process_data |-> process_data,
               anchor_pos |-> 0, result |-> NoResult, i |-> 0, sent |-> <<>>]
     IN /\ sessions' = after
        /\ handlers' = [k \in (DOMAIN handlers) \cup {c} |->
                          IF k = c THEN h ELSE handlers[k]]
        /\ arrived' = c
        /\ running' = IF Yields("decode") THEN 0 ELSE c
        /\ lowrun' = LowRunKeep(lowrun, sessions, sessions')
        /\ held' = HeldKeep(held, sessions, sessions')
        /\ last' = Op("audio_chunk", sid, c)
  /\ UNCHANGED <<asr, connected, opened, emitted_upto>>

\* lines 327-330: the decoder raised ffmpeg.Error.
DecoderFails(c) ==
  /\ Scheduled(c)
  /\ handlers[c].pc = "decode"
  /\ emitted_upto' = EmittedBy(handlers[c].sid, c)
  /\ handlers' = Finish(handlers, c)
  /\ running' = 0
  /\ last' = [Op("decode_failed", handlers[c].sid, c) EXCEPT
                !.changed = handlers[c].changed,
                !.sent = <<ErrorEvent("Audio conversion failed: stderr", FALSE)>>]
  /\ UNCHANGED <<asr, sessions, arrived, connected, opened, lowrun, held>>

\* lines 322-349: the decoder returned; the ring append, the concatenation
\* and the call of the transcriber.
DecoderReturns(c) ==
  /\ Scheduled(c)
  /\ handlers[c].pc = "decode"
  /\ LET sid == handlers[c].sid
         current_wav_bytes == Decode(handlers[c].process_data)
     IN /\ sessions' = add_audio_to_buffer(sessions, sid, current_wav_bytes, CHUNK_DURATION)
        /\ held' = HeldAfterAdd(held, sessions, sessions', sid, CHUNK_DURATION)
        /\ handlers' = [handlers EXCEPT
                          ![c].pc = "transcribe",
                          ![c].changed = @ \/ Changes(sessions, sessions', sid)]
        /\ running' = IF Yields("transcribe") THEN 0 ELSE c
        /\ lowrun' = LowRunKeep(lowrun, sessions, sessions')
        /\ last' = [Op("decoded", sid, c) EXCEPT
                      !.mode_before = ModeOf(sessions, sid),
                      !.evicted = Len(get_session(sessions, sid)[sid].audio_buffer_wav) + 1
                                  - Len(sessions'[sid].audio_buffer_wav)]
  /\ UNCHANGED <<asr, arrived, connected, opened, emitted_upto>>

\* A plausible slip: the handlers in the other order, so that the clause
\* for Exception also takes every RuntimeError.
ExceptClauseExceptionFirst(outcome) == "transcription_failed"

\* lines 350-357: the except clause that takes what the transcriber raised,
\* as the error code it emits.
ExceptClause(outcome) ==
  IF outcome = "RuntimeError" THEN "asr_error" ELSE "transcription_failed"

\* A plausible slip: a chunk without speech is counted as a low-confidence
\* chunk (an update with confidence 0 on the error path).
TranscriberFailsCountsLow(c, outcome) ==
  /\ Scheduled(c)
  /\ handlers[c].pc = "transcribe"
  /\ outcome \in {"RuntimeError", "Exception"} \/ IsBlank(outcome)
       \/ SpokenWords(outcome) = <<>>
  /\ LET sid == handlers[c].sid
     IN /\ emitted_upto' = EmittedBy(sid, c)
        /\ sessions' = update_from_alignment(sessions, sid, 0, 0)
        /\ lowrun' = LowRunAfterUpdate(lowrun, sessions, sid, 0)
        /\ held' = HeldKeep(held, sessions, sessions')
        /\ last' = [Op("no_speech", sid, c) EXCEPT
                      !.changed = TRUE,
                      !.sent = <<ErrorEvent("No speech detected", FALSE)>>]
  /\ handlers' = Finish(handlers, c)
  /\ running' = 0
  /\ UNCHANGED <<asr, arrived, connected, opened>>

\* lines 350-377: the transcriber raised, or its transcript holds no word.
TranscriberFails(c, outcome) ==
  /\ Scheduled(c)
  /\ handlers[c].pc = "transcribe"
  /\ outcome \in {"RuntimeError", "Exception"} \/ IsBlank(outcome)
       \/ SpokenWords(outcome) = <<>>
  /\ LET sid == handlers[c].sid
         ev == CASE outcome \in {"RuntimeError", "Exception"} ->
                      ErrorEvent(ExceptClause(outcome), TRUE)
                 [] IsBlank(outcome) -> ErrorEvent("No speech detected", FALSE)
                 [] OTHER -> ErrorEvent("No valid words detected", FALSE)
         name == CASE outcome \in {"RuntimeError", "Exception"} -> "transcribe_failed"
                   [] OTHER -> "no_speech"
     IN /\ emitted_upto' = EmittedBy(sid, c)
        /\ last' = [Op(name, sid, c) EXCEPT !.changed = handlers[c].changed,
                                            !.sent = <<ev>>,
                                            !.outcome = outcome]
  /\ handlers' = Finish(handlers, c)
  /\ running' = 0
  /\ UNCHANGED <<asr, sessions, arrived, connected, opened, lowrun, held>>

\* lines 359-379: the transcriber returned a transcript with words.
TranscriberReturns(c, outcome) ==
  /\ Scheduled(c)
  /\ handlers[c].pc = "transcribe"
  /\ outcome \notin {"RuntimeError", "Exception"}
  /\ ~IsBlank(outcome)
  /\ SpokenWords(outcome) # <<>>
  /\ handlers' = [handlers EXCEPT ![c].pc = "align"]
  /\ running' = IF Yields("align") THEN 0 ELSE c
  /\ last' = Op("transcribed", handlers[c].sid, c)
  /\ UNCHANGED <<asr, sessions, arrived, connected, opened, emitted_upto, lowrun, held>>

\* A plausible slip: no catch-all around the handler, the exception leaves
\* it without an event.
AlignRaisesUncaught(c) ==
  /\ Scheduled(c)
  /\ handlers[c].pc = "align"
  /\ handlers' = Finish(handlers, c)
  /\ running' = 0
  /\ last' = [Op("handler_failed", handlers[c].sid, c) EXCEPT
                !.changed = handlers[c].changed]
  /\ UNCHANGED <<asr, sessions, arrived, connected, opened, lowrun, held, emitted_upto>>

\* lines 382-394 and 448-450: the page argument is not a number, or the
\* engine raises; the handler's catch-all reports str(e).
AlignRaises(c) ==
  /\ Scheduled(c)
  /\ handlers[c].pc = "align"
  /\ emitted_upto' = EmittedBy(handlers[c].sid, c)
  /\ handlers' = Finish(handlers, c)
  /\ running' = 0
  /\ last' = [Op("handler_failed", handlers[c].sid, c) EXCEPT
                !.changed = handlers[c].changed,
                !.sent = <<ErrorEvent("str(e)", FALSE)>>]
  /\ UNCHANGED <<asr, sessions, arrived, connected, opened, lowrun, held>>

\* lines 389-394: align_transcript on the anchor and mode of session_state.
Align(c) ==
  /\ Scheduled(c)
  /\ handlers[c].pc = "align"
  /\ \E r \in AlignResults(Deref(c).global_word_pos, Deref(c).mode) :
       /\ handlers' = [handlers EXCEPT ![c].pc = "update", ![c].result = r,
                                        ![c].anchor_pos = Deref(c).global_word_pos]
       /\ last' = Op("align", handlers[c].sid, c)
  /\ running' = IF Yields("update") THEN 0 ELSE c
  /\ UNCHANGED <<asr, sessions, arrived, connected, opened, emitted_upto, lowrun, held>>

\* lines 407-411
Update(c) ==
  /\ Scheduled(c)
  /\ handlers[c].pc = "update"
  /\ LET sid == handlers[c].sid
         r == handlers[c].result
     IN /\ sessions' = update_from_alignment(sessions, sid, r.confidence,
                                             r.furthest_global_index)
        /\ lowrun' = LowRunAfterUpdate(lowrun, sessions, sid, r.confidence)
        /\ held' = HeldKeep(held, sessions, sessions')
        /\ last' = Op("update", sid, c)
        /\ handlers' = [handlers EXCEPT
                          ![c].pc = "emit", ![c].i = 1,
                          ![c].changed = @ \/ Changes(sessions, sessions', sid)]
  /\ running' = IF Yields("emit") THEN 0 ELSE c
  /\ UNCHANGED <<asr, arrived, connected, opened, emitted_upto>>

\* lines 419-429: one turn of the loop over the matches.
EmitWord(c) ==
  /\ Scheduled(c)
  /\ handlers[c].pc = "emit"
  /\ handlers[c].i <= Len(handlers[c].result.matches)
  /\ LET i == handlers[c].i
         present == MatchHasWord(handlers[c].result.matches[i])
         sent == IF present
                 THEN Append(handlers[c].sent, Event("word_result", "", FALSE, i, 0, ""))
                 ELSE handlers[c].sent
     IN /\ handlers' = [handlers EXCEPT ![c].i = i + 1, ![c].sent = sent]
        /\ emitted_upto' = IF present THEN EmittedBy(handlers[c].sid, c) ELSE emitted_upto
        /\ last' = [Op(IF present THEN "emit_word" ELSE "skip_word", handlers[c].sid, c)
                      EXCEPT !.sent = sent]
  /\ running' = IF Yields("emit") THEN 0 ELSE c
  /\ UNCHANGED <<asr, sessions, arrived, connected, opened, lowrun, held>>

\* lines 436-443: chunk_done, from the handler's session_state.
EmitDone(c) ==
  /\ Scheduled(c)
  /\ handlers[c].pc = "emit"
  /\ handlers[c].i > Len(handlers[c].result.matches)
  /\ emitted_upto' = EmittedBy(handlers[c].sid, c)
  /\ handlers' = Finish(handlers, c)
  /\ running' = 0
  /\ last' = [Op("chunk_done", handlers[c].sid, c) EXCEPT
                !.sent = Append(handlers[c].sent,
                                Event("chunk_done", "", FALSE, 0,
                                      Deref(c).global_word_pos, Deref(c).mode))]
  /\ UNCHANGED <<asr, sessions, arrived, connected, opened, lowrun, held>>

Chunks == 1..MaxChunks

Next ==
  \/ \E sid \in Clients : Connect(sid)
  \/ \E sid \in Clients : Disconnect(sid)
  \/ \E sid \in Clients : AudioChunk(sid)
  \/ \E c \in Chunks : DecoderFails(c)
  \/ \E c \in Chunks : DecoderReturns(c)
  \/ \E c \in Chunks, o \in TranscriberOutcomes : TranscriberFails(c, o)
  \/ \E c \in Chunks, o \in TranscriberOutcomes : TranscriberReturns(c, o)
  \/ \E c \in Chunks : AlignRaises(c)
  \/ \E c \in Chunks : Align(c)
  \/ \E c \in Chunks : Update(c)
  \/ \E c \in Chunks : EmitWord(c)
  \/ \E c \in Chunks : EmitDone(c)

Spec == Init /\ [][Next]_vars

\* A session that has had four chunks, each decoded and found to hold no
\* speech: its header is cached and its ring is full.
WarmSessions ==
  LET sid == "s1"
      opened_ == create_session(<< >>, sid)
      header == First500(AudioData(-3))
      patched == [opened_ EXCEPT ![sid].webm_header = header]
      a1 == add_audio_to_buffer(patched, sid, Decode(AudioData(-3)), CHUNK_DURATION)
      a2 == add_audio_to_buffer(a1, sid, Decode(header \o AudioData(-2)), CHUNK_DURATION)
      a3 == add_audio_to_buffer(a2, sid, Decode(header \o AudioData(-1)), CHUNK_DURATION)
  IN add_audio_to_buffer(a3, sid, Decode(header \o AudioData(0)), CHUNK_DURATION)

InitWarm ==
  /\ sessions = WarmSessions
  /\ handlers = << >>
  /\ running = 0
  /\ arrived = 0
  /\ connected = {"s1"}
  /\ opened = {"s1"}
  /\ emitted_upto = [s \in SIDs |-> 0]
  /\ lowrun = [s \in {"s1"} |-> 0]
  /\ held = [s \in {"s1"} |->
              <<CHUNK_DURATION, CHUNK_DURATION, CHUNK_DURATION, CHUNK_DURATION>>]
  /\ asr = _get_asr_backend(AtImport(Unset))
  /\ last = NoOp

\* A step of the handler of chunk c.
HandlerStep(c) ==
  \/ DecoderFails(c)
  \/ DecoderReturns(c)
  \/ \E o \in TranscriberOutcomes : TranscriberFails(c, o)
  \/ \E o \in TranscriberOutcomes : TranscriberReturns(c, o)
  \/ AlignRaises(c)
  \/ Align(c)
  \/ Update(c)
  \/ EmitWord(c)
  \/ EmitDone(c)

\* The pipeline from a new server or from a session with a full ring, with
\* every handler that can take a step taking it in the end: the external
\* decoder and transcriber return, and the hub runs every green thread that
\* is ready.
SpecLive ==
  /\ Init \/ InitWarm
  /\ [][Next]_vars
  /\ \A c \in Chunks : WF_vars(HandlerStep(c))

\* Two clients on the pipeline.
PairNext ==
  \/ \E sid \in SIDs : Connect(sid)
  \/ \E sid \in SIDs : Disconnect(sid)
  \/ \E sid \in SIDs : AudioChunk(sid)
  \/ \E c \in Chunks : DecoderFails(c)
  \/ \E c \in Chunks : DecoderReturns(c)
  \/ \E c \in Chunks, o \in TranscriberOutcomes : TranscriberFails(c, o)
  \/ \E c \in Chunks, o \in TranscriberOutcomes : TranscriberReturns(c, o)
  \/ \E c \in Chunks : AlignRaises(c)
  \/ \E c \in Chunks : Align(c)
  \/ \E c \in Chunks : Update(c)
  \/ \E c \in Chunks : EmitWord(c)
  \/ \E c \in Chunks : EmitDone(c)

SpecPair == Init /\ [][PairNext]_vars


\* ------------------------------------------------------------ claims
\* The record of sid before a step that looks it up: its record, or the
\* fresh one get_session creates.
Looked(ss, sid) == get_session(ss, sid)[sid]

\* C1: the anchor of a session never decreases from one step to the next
\* unless the step is a reset of that session (or starts the session anew),
\* and an update sets it to max(old anchor, furthest_global_index) whatever
\* the furthest index and the confidence are.
C1_AnchorMonotone ==
  [][\A s \in SIDs :
       /\ (/\ s \in DOMAIN sessions
           /\ s \in DOMAIN sessions'
           /\ ~(last'.sid = s /\ last'.op \in {"reset_session_progress", "create_session"}))
          => sessions'[s].global_word_pos >= sessions[s].global_word_pos
       /\ (last'.op = "update_from_alignment" /\ last'.sid = s)
          => sessions'[s].global_word_pos =
               Max(Looked(sessions, s).global_word_pos, last'.furthest)]_vars

\* An update whose furthest index lies behind the anchor has been applied.
C1_Witness ==
  /\ last.op = "update_from_alignment"
  /\ last.furthest < sessions[last.sid].global_word_pos

\* C2: after MAX_LOW_CONFIDENCE consecutive low-confidence updates of a
\* session its mode is "search", and right after any update with confidence
\* at or above the threshold its mode is "tracking".
C2_ModeTransition ==
  \A s \in DOMAIN sessions :
    /\ LowRunOf(lowrun, sessions, s) >= MAX_LOW_CONFIDENCE => sessions[s].mode = "search"
    /\ (/\ last.op = "update_from_alignment"
        /\ last.sid = s
        /\ last.confidence >= CONFIDENCE_THRESHOLD) => sessions[s].mode = "tracking"

\* A session in search mode has just been put back to tracking by one
\* confident update.
C2_Witness ==
  /\ last.op = "update_from_alignment"
  /\ last.confidence >= CONFIDENCE_THRESHOLD
  /\ last.mode_before = "search"
  /\ sessions[last.sid].mode = "tracking"

\* C3: every update follows the transition table: a confident update clears
\* the streak and gives tracking; a low-confidence update adds one to the
\* streak, keeps tracking while the streak is below MAX_LOW_CONFIDENCE, gives
\* search when the streak reaches it, and keeps search afterwards.
C3_TransitionTable ==
  [][\A s \in SIDs :
       (last'.op = "update_from_alignment" /\ last'.sid = s) =>
         LET old == Looked(sessions, s)
             new == sessions'[s]
         IN IF last'.confidence >= CONFIDENCE_THRESHOLD
            THEN /\ new.consecutive_low_confidence = 0
                 /\ new.mode = "tracking"
            ELSE /\ new.consecutive_low_confidence = old.consecutive_low_confidence + 1
                 /\ (old.mode = "tracking"
                     /\ new.consecutive_low_confidence < MAX_LOW_CONFIDENCE)
                    => new.mode = "tracking"
                 /\ (old.mode = "tracking"
                     /\ new.consecutive_low_confidence = MAX_LOW_CONFIDENCE)
                    => new.mode = "search"
                 /\ old.mode = "search" => new.mode = "search"]_vars

\* A low-confidence update has just moved a session from tracking to search.
C3_Witness ==
  /\ last.op = "update_from_alignment"
  /\ last.confidence < CONFIDENCE_THRESHOLD
  /\ last.mode_before = "tracking"
  /\ sessions[last.sid].mode = "search"
  /\ sessions[last.sid].consecutive_low_confidence = MAX_LOW_CONFIDENCE

\* C4: in every state of a ring, its duration counter is at most the cap or
\* it holds exactly one chunk.
C4_RingCap ==
  \A s \in DOMAIN sessions :
    \/ sessions[s].audio_buffer_duration <= sessions[s].max_buffer_duration
    \/ Len(sessions[s].audio_buffer_wav) = 1

\* An append has evicted down to a single chunk that alone exceeds the cap.
C4_Witness ==
  /\ last.op = "add_audio_to_buffer"
  /\ last.duration < sessions[last.sid].audio_buffer_duration
  /\ sessions[last.sid].audio_buffer_duration > sessions[last.sid].max_buffer_duration
  /\ Len(sessions[last.sid].audio_buffer_wav) = 1

\* C5: while a chunk handler is between its align call and the end of its
\* update_from_alignment, every step taken is that handler's own: no other
\* handler (chunk, connect, disconnect) runs in between.
C5_AlignUpdateAtomic ==
  [][\A c \in DOMAIN handlers :
       handlers[c].pc = "update" => (last'.chunk = c /\ last'.op = "update")]_vars

\* A handler is between align and update while another chunk of the same
\* session is in flight, suspended at the decoder or the transcriber.
C5_Witness ==
  \E c, d \in DOMAIN handlers :
    /\ c # d
    /\ handlers[c].sid = handlers[d].sid
    /\ handlers[c].pc = "update"
    /\ handlers[d].pc \in {"decode", "transcribe"}

\* The steps that emit an event.
EmitOps == {"decode_failed", "transcribe_failed", "no_speech", "handler_failed",
            "emit_word", "chunk_done"}

\* C6: within a session the events are emitted in chunk order: when a chunk
\* emits an event no later chunk of the session has emitted one; a handler
\* that has begun to emit keeps the thread until its chunk_done, so nothing
\* comes between its events; and chunk_done is the last event of its chunk,
\* after all its word_results.
C6_EmitOrder ==
  /\ last.op \in EmitOps => last.chunk >= emitted_upto[last.sid]
  /\ \A c \in DOMAIN handlers : handlers[c].sent # <<>> => running = c
  /\ last.op = "chunk_done" =>
       \A k \in 1..Len(last.sent) :
         last.sent[k].event = IF k = Len(last.sent) THEN "chunk_done" ELSE "word_result"

\* C7: when the decoder fails on a chunk, the chunk's handler has left the
\* session record as it was when the chunk arrived: none of its steps has
\* changed what the map holds for the session.
C7_DecodeFailureKeepsState ==
  last.op = "decode_failed" => ~last.changed

\* C8: when the transcriber fails on a chunk, the chunk's handler has left
\* the session record as it was when the chunk arrived.
C8_TranscribeFailureKeepsState ==
  last.op = "transcribe_failed" => ~last.changed

\* C9: when the transcript holds no word, the chunk's handler has left the
\* session record as it was when the chunk arrived.
C9_NoSpeechKeepsState ==
  last.op = "no_speech" => ~last.changed

\* The update step of chunk c is being taken with an alignment below
\* acceptance.
BelowAcceptanceUpdate(c) ==
  /\ handlers[c].pc = "update"
  /\ handlers[c].result.segment_score < SEGMENT_THRESHOLD
  /\ last'.op = "update"
  /\ last'.chunk = c

C11_RecordOnlyWhileOpen == DOMAIN sessions \subseteq connected

\* C12: a chunk that arrives while the header is unset goes to the decoder
\* as it is and its first 500 bytes become the header; a chunk that arrives
\* later goes to the decoder as header followed by chunk and leaves the
\* header alone; and no step other than a reset, a close or a new open of
\* the session changes a header that is set.
C12_HeaderPatch ==
  [][/\ \A c \in Chunks :
          (last'.op = "audio_chunk" /\ last'.chunk = c) =>
            LET sid == last'.sid
                old == Looked(sessions, sid).webm_header
                data == <<[chunk |-> c, part |-> "all"]>>
            IN IF old = <<>>
               THEN /\ handlers'[c].process_data = data
                    /\ sessions'[sid].webm_header = <<[chunk |-> c, part |-> "first500"]>>
               ELSE /\ handlers'[c].process_data = old \o data
                    /\ sessions'[sid].webm_header = old
     /\ \A s \in DOMAIN sessions :
          (/\ sessions[s].webm_header # <<>>
           /\ ~(last'.sid = s /\ last'.op \in {"reset_session_progress", "create_session",
                                               "delete_session", "connect", "disconnect"}))
          => (s \in DOMAIN sessions' /\ sessions'[s].webm_header = sessions[s].webm_header)]_vars

\* A second chunk has been given to the decoder behind the header taken
\* from the first.
C12_Witness ==
  /\ last.op = "audio_chunk"
  /\ last.chunk \in DOMAIN handlers
  /\ Len(handlers[last.chunk].process_data) = 2
  /\ handlers[last.chunk].process_data[1].part = "first500"
  /\ handlers[last.chunk].process_data[1].chunk # last.chunk
  /\ sessions[last.sid].webm_header = <<handlers[last.chunk].process_data[1]>>

RECURSIVE SumSeq(_)
SumSeq(q) == IF q = <<>> THEN 0 ELSE q[1] + SumSeq(Tail(q))

\* C13: in every state the duration counter of a ring equals the sum of the
\* durations that were passed with the chunks the ring holds, and is not
\* negative.
C13_DurationIsSum ==
  \A s \in DOMAIN sessions :
    /\ sessions[s].audio_buffer_duration = SumSeq(HeldOf(held, sessions, s))
    /\ sessions[s].audio_buffer_duration >= 0

\* C14: after every append the ring is not empty and is the tail end of the
\* old ring followed by the chunk just appended: eviction takes from the
\* front only, keeps the order, and never takes the last chunk.
C14_FrontEviction ==
  [][\A s \in SIDs :
       (last'.op = "add_audio_to_buffer" /\ last'.sid = s) =>
         LET all == Append(Looked(sessions, s).audio_buffer_wav, last'.wav)
             new == sessions'[s].audio_buffer_wav
         IN /\ Len(new) >= 1
            /\ Len(new) <= Len(all)
            /\ new = SubSeq(all, Len(all) - Len(new) + 1, Len(all))
            /\ new[Len(new)] = last'.wav]_vars

\* An append has evicted from the front and left two chunks, the older one
\* different from the one appended.
C14_Witness ==
  /\ last.op = "add_audio_to_buffer"
  /\ last.evicted >= 1
  /\ Len(sessions[last.sid].audio_buffer_wav) = 2
  /\ sessions[last.sid].audio_buffer_wav[1] # last.wav

\* The bytes of a byte string, one by one, each as <<blob, index>>.
RECURSIVE Bytes(_)
Bytes(b) ==
  IF b = <<>> THEN <<>>
  ELSE [k \in 1..(b[1].to - b[1].from + 1) |-> <<b[1].src, b[1].from + k - 1>>]
       \o Bytes(Tail(b))

\* The bytes of each chunk from its 45th on, chunk after chunk.
RECURSIVE SampleBytes(_)
SampleBytes(chunks) ==
  IF chunks = <<>> THEN <<>>
  ELSE LET bs == Bytes(chunks[1])
       IN (IF Len(bs) > 44 THEN SubSeq(bs, 45, Len(bs)) ELSE <<>>)
          \o SampleBytes(Tail(chunks))

\* C15: get_cumulative_audio returns no byte for an empty ring and otherwise
\* all bytes of the first chunk followed by the bytes after the 44th of each
\* later chunk, in ring order; the call leaves the ring and its duration
\* counter as they were.
C15_CumulativeAudio ==
  [][\A s \in SIDs :
       (last'.op = "get_cumulative_audio" /\ last'.sid = s) =>
         LET old == Looked(sessions, s)
             ring == old.audio_buffer_wav
         IN /\ s \in DOMAIN sessions'
            /\ sessions'[s].audio_buffer_wav = ring
            /\ sessions'[s].audio_buffer_duration = old.audio_buffer_duration
            /\ Bytes(last'.audio) =
                 IF ring = <<>> THEN <<>>
                 ELSE Bytes(ring[1]) \o SampleBytes(Tail(ring))]_vars

\* The audio of a ring of three chunks has been returned, one of the later
\* chunks a bare header and the other with samples.
C15_Witness ==
  /\ last.op = "get_cumulative_audio"
  /\ LET ring == sessions[last.sid].audio_buffer_wav
     IN /\ Len(ring) = 3
        /\ \E k \in 2..3 : ByteLen(ring[k]) <= WAV_HEADER
        /\ \E k \in 2..3 : ByteLen(ring[k]) > WAV_HEADER
        /\ ByteLen(last.audio) = ByteLen(ring[1]) + 1

\* C16: a chunk that ends with chunk_done has sent, before it, exactly one
\* word_result for each Match of its alignment that has a quran_word, in the
\* order of the matches, and none for a Match without one; chunk_done is its
\* last event and it sent no other.
C16_WordEvents ==
  [][\A c \in DOMAIN handlers :
       (last'.op = "chunk_done" /\ last'.chunk = c) =>
         LET ms == handlers[c].result.matches
             sent == last'.sent
             n == Len(sent)
         IN /\ n >= 1
            /\ sent[n].event = "chunk_done"
            /\ \A k \in 1..(n - 1) :
                 /\ sent[k].event = "word_result"
                 /\ sent[k].error = ""
                 /\ sent[k].match \in 1..Len(ms)
                 /\ ms[sent[k].match]
            /\ \A i \in 1..Len(ms) :
                 ms[i] => Cardinality({k \in 1..(n - 1) : sent[k].match = i}) = 1
            /\ \A j, k \in 1..(n - 1) : j < k => sent[j].match < sent[k].match]_vars

\* A chunk has ended whose first Match had no quran_word and whose second
\* had one: one word_result, for the second, and chunk_done.
C16_Witness ==
  /\ last.op = "chunk_done"
  /\ Len(last.sent) = 2
  /\ last.sent[1].event = "word_result"
  /\ last.sent[1].match = 2

\* The steps at which a chunk ends in an error.
ErrorOps == {"decode_failed", "transcribe_failed", "no_speech", "handler_failed"}

\* How far a handler has come.
Rank(pc) ==
  CASE pc = "decode" -> 1 [] pc = "transcribe" -> 2 [] pc = "align" -> 3
    [] pc = "update" -> 4 [] pc = "emit" -> 5

\* A word_result that carries a word, not an error.
IsData(e) == e.event = "word_result" /\ e.error = ""

\* C17: a chunk ends exactly once, either with one error event and nothing
\* else or with its data word_results followed by one chunk_done; a handler
\* never goes back to an earlier call and a chunk that has ended does not
\* come back; after an error the handler is gone, the thread is free, and
\* the record of a session that is still open is in the map.
C17_OneOutcome ==
  [][/\ \A c \in DOMAIN handlers' :
          \A k \in 1..Len(handlers'[c].sent) : IsData(handlers'[c].sent[k])
     /\ \A c \in DOMAIN handlers :
          IF c \in DOMAIN handlers'
          THEN Rank(handlers'[c].pc) >= Rank(handlers[c].pc)
          ELSE last'.chunk = c /\ last'.op \in ErrorOps \cup {"chunk_done"}
     /\ \A c \in (DOMAIN handlers') \ (DOMAIN handlers) : c > arrived
     /\ last'.op \in ErrorOps =>
          /\ Len(last'.sent) = 1
          /\ last'.sent[1].event = "word_result"
          /\ last'.sent[1].error # ""
          /\ last'.chunk \notin DOMAIN handlers'
          /\ running' = 0
          /\ last'.sid \in connected' => last'.sid \in DOMAIN sessions'
     /\ last'.op = "chunk_done" =>
          /\ last'.chunk \notin DOMAIN handlers'
          /\ Len(last'.sent) >= 1
          /\ \A k \in 1..Len(last'.sent) :
               IF k = Len(last'.sent)
               THEN last'.sent[k].event = "chunk_done"
               ELSE IsData(last'.sent[k])]_vars

\* A chunk of an open session has ended in a transcriber error while the
\* next chunk of the session is in flight: the record is there for it.
C17_Witness ==
  /\ last.op = "transcribe_failed"
  /\ last.sid \in connected
  /\ last.sid \in DOMAIN sessions
  /\ \E d \in DOMAIN handlers : d > last.chunk /\ handlers[d].sid = last.sid

\* The error codes of the event contract.
ErrorCodes == {"asr_error", "transcription_failed", "audio_conversion_failed", "no_speech"}

\* C18: every error event has one of the four error codes and a message
\* field; a decoder failure is reported as audio_conversion_failed and a
\* transcript without words as no_speech.
C18_ErrorCodes ==
  \A k \in 1..Len(last.sent) :
    last.sent[k].error # "" =>
      /\ last.sent[k].error \in ErrorCodes
      /\ last.sent[k].message
      /\ last.op = "decode_failed" => last.sent[k].error = "audio_conversion_failed"
      /\ last.op = "no_speech" => last.sent[k].error = "no_speech"

\* C19: a step taken for one session (a SessionManager operation on it or a
\* step of the handler of one of its chunks) leaves the record of every
\* other session as it was: present or absent, and every field of it.
C19_SessionsIndependent ==
  [][\A s \in SIDs :
       s # last'.sid => RecordOf(sessions', s) = RecordOf(sessions, s)]_vars

\* A chunk of one session has been applied to its record while a chunk of
\* the other session is in flight and the other session has a header and
\* audio in its ring.
C19_Witness ==
  /\ last.op = "update"
  /\ \E d \in DOMAIN handlers : handlers[d].sid # last.sid
  /\ \E s \in DOMAIN sessions :
       /\ s # last.sid
       /\ sessions[s].webm_header # <<>>
       /\ sessions[s].audio_buffer_wav # <<>>

\* The record a lookup creates: all fields at their initial values, the
\* cap at the manager's configured maximum.
Fresh ==
  [global_word_pos |-> 0, last_confidence |-> 0, mode |-> "tracking",
   consecutive_low_confidence |-> 0, webm_header |-> <<>>, audio_buffer_wav |-> <<>>,
   audio_buffer_duration |-> 0, max_buffer_duration |-> AUDIO_BUFFER_MAX_DURATION]

\* What an update makes of the fresh record.
FreshUpdated(confidence, furthest) ==
  [Fresh EXCEPT !.global_word_pos = furthest,
                !.last_confidence = confidence,
                !.consecutive_low_confidence =
                   IF confidence < CONFIDENCE_THRESHOLD THEN 1 ELSE 0]

\* C20: an operation for a sid that has no record in the map (lookup,
\* append, update, clear, reset, called directly or by a chunk handler)
\* leaves a record for the sid that is what the operation makes of a fresh
\* record with the configured cap.
C20_LazyCreate ==
  [][\A s \in SIDs :
       (last'.sid = s /\ s \notin DOMAIN sessions) =>
         /\ last'.op \in {"get_session", "get_cumulative_audio", "clear_audio_buffer",
                          "reset_session_progress"}
            => (s \in DOMAIN sessions' /\ sessions'[s] = Fresh)
         /\ last'.op = "add_audio_to_buffer"
            => /\ s \in DOMAIN sessions'
               /\ sessions'[s] = [Fresh EXCEPT !.audio_buffer_wav = <<last'.wav>>,
                                               !.audio_buffer_duration = last'.duration]
         /\ last'.op = "decoded"
            => /\ s \in DOMAIN sessions'
               /\ Len(sessions'[s].audio_buffer_wav) = 1
               /\ sessions'[s] =
                    [Fresh EXCEPT !.audio_buffer_wav = sessions'[s].audio_buffer_wav,
                                  !.audio_buffer_duration = CHUNK_DURATION]
         /\ last'.op = "update_from_alignment"
            => /\ s \in DOMAIN sessions'
               /\ sessions'[s] = FreshUpdated(last'.confidence, last'.furthest)
         /\ last'.op = "update"
            => /\ s \in DOMAIN sessions'
               /\ sessions'[s] =
                    FreshUpdated(handlers[last'.chunk].result.confidence,
                                 handlers[last'.chunk].result.furthest_global_index)]_vars

\* An update for a session that had no record has left a record with the
\* update applied to the initial state, while the other session holds a
\* record that has moved on and has audio in its ring.
C20_Witness ==
  /\ last.op = "update_from_alignment"
  /\ last.mode_before = ""
  /\ last.furthest > 0
  /\ sessions[last.sid].global_word_pos = last.furthest
  /\ sessions[last.sid].audio_buffer_wav = <<>>
  /\ \E s \in DOMAIN sessions :
       /\ s # last.sid
       /\ sessions[s].audio_buffer_wav # <<>>
       /\ sessions[s].global_word_pos > 0

\* The record before the last operation was not the initial one: it had
\* moved on, was in search mode, had a codec header and audio in its ring.
MovedOn(before) ==
  /\ before # <<>>
  /\ before[1].global_word_pos > 0
  /\ before[1].last_confidence > 0
  /\ before[1].mode = "search"
  /\ before[1].consecutive_low_confidence >= MAX_LOW_CONFIDENCE
  /\ before[1].webm_header # <<>>
  /\ before[1].audio_buffer_wav # <<>>
  /\ before[1].audio_buffer_duration > 0

\* C21: after a session is opened (create_session, called directly or by
\* handle_connect) the record of the sid is in the initial state: mode
\* tracking, anchor 0, streak 0, last confidence 0, no codec header, an empty
\* ring of duration 0; a record that existed for the sid is replaced.
C21_OpenIsInitial ==
  [][last'.op \in {"create_session", "connect"} =>
       /\ last'.sid \in DOMAIN sessions'
       /\ sessions'[last'.sid] = Fresh]_vars

\* A create for a sid whose record had moved on has left the initial record.
C21_Witness ==
  /\ last.op = "create_session"
  /\ MovedOn(last.before)
  /\ sessions[last.sid] = Fresh

\* C22: reset_session_progress leaves, from any record, the record a create
\* would leave (with the cap the record had), and a second reset changes
\* nothing.
C22_ResetIsFresh ==
  [][last'.op = "reset_session_progress" =>
       /\ last'.sid \in DOMAIN sessions'
       /\ sessions'[last'.sid] =
            [Fresh EXCEPT !.max_buffer_duration =
                             Looked(sessions, last'.sid).max_buffer_duration]
       /\ sessions'[last'.sid] =
            [create_session(sessions, last'.sid)[last'.sid] EXCEPT
               !.max_buffer_duration = Looked(sessions, last'.sid).max_buffer_duration]
       /\ reset_session_progress(sessions', last'.sid) = sessions']_vars

\* A reset of a record that had moved on, while the other session keeps a
\* record that is not the initial one.
C22_Witness ==
  /\ last.op = "reset_session_progress"
  /\ MovedOn(last.before)
  /\ sessions[last.sid] = Fresh
  /\ \E s \in DOMAIN sessions : s # last.sid /\ sessions[s] # Fresh

\* C23: clear_audio_buffer empties the chunk list and the duration counter
\* of the session's ring and leaves its anchor, mode, streak, last
\* confidence and codec header as they were.
C23_ClearFrame ==
  [][last'.op = "clear_audio_buffer" =>
       /\ last'.sid \in DOMAIN sessions'
       /\ sessions'[last'.sid] =
            [Looked(sessions, last'.sid) EXCEPT !.audio_buffer_wav = <<>>,
                                                !.audio_buffer_duration = 0]]_vars

\* A clear of a ring that held audio, in a record that had moved on: the
\* ring is empty and the other fields are the ones the record had.
C23_Witness ==
  /\ last.op = "clear_audio_buffer"
  /\ MovedOn(last.before)
  /\ sessions[last.sid].audio_buffer_wav = <<>>
  /\ sessions[last.sid].audio_buffer_duration = 0
  /\ sessions[last.sid].global_word_pos = last.before[1].global_word_pos
  /\ sessions[last.sid].mode = "search"
  /\ sessions[last.sid].webm_header = last.before[1].webm_header

\* C27: in every record of the map the mode is tracking or search, and it
\* is search exactly when the streak of low-confidence chunks has reached
\* MAX_LOW_CONFIDENCE: after create, after every update and after reset.
C27_ModeFollowsStreak ==
  \A s \in DOMAIN sessions :
     /\ sessions[s].mode \in {"tracking", "search"}
     /\ sessions[s].mode = "search"
          <=> sessions[s].consecutive_low_confidence >= MAX_LOW_CONFIDENCE

\* An update has taken the streak past MAX_LOW_CONFIDENCE, in search mode,
\* while the other session's record is in tracking mode one chunk short of
\* the switch.
C27_Witness ==
  /\ last.op = "update_from_alignment"
  /\ sessions[last.sid].consecutive_low_confidence > MAX_LOW_CONFIDENCE
  /\ sessions[last.sid].mode = "search"
  /\ \E s \in DOMAIN sessions :
       /\ s # last.sid
       /\ sessions[s].consecutive_low_confidence = MAX_LOW_CONFIDENCE - 1
       /\ sessions[s].mode = "tracking"

\* The backend the claim names for a first read: the environment value when
\* the variable is set and the config value otherwise, lower-cased, and
\* whisper for anything that is then neither whisper nor nemo.
FirstRead(a) ==
  LET v == Lower(IF a.env.set THEN a.env.value ELSE a.config)
  IN IF v = Whisper \/ v = Nemo THEN v ELSE Whisper

\* C24: the transcriber backend is fixed once.  The first read selects it
\* from the environment and the config as they are then; once selected it
\* never changes, whatever the environment and the config hold later; and
\* every transcribe_audio call is handed to the function of that backend.
C24_BackendFixedOnce ==
  [][/\ (asr.backend = <<>> /\ asr'.backend # <<>>) => asr'.backend = <<FirstRead(asr)>>
     /\ asr.backend # <<>> => asr'.backend = asr.backend
     /\ last'.op = "transcribe_audio" =>
          /\ asr'.backend # <<>>
          /\ asr'.backend[1] = Nemo => last'.dispatched = "nemo_transcribe_wav_bytes"
          /\ asr'.backend[1] = Whisper => last'.dispatched = "whisper_transcribe_wav_bytes"
          /\ asr'.backend[1] \in {Nemo, Whisper}]_vars

\* A transcription was handed to the nemo backend, chosen earlier, while
\* the environment and the config both name whisper by now.
C24_Witness ==
  /\ last.op = "transcribe_audio"
  /\ last.dispatched = "nemo_transcribe_wav_bytes"
  /\ asr.backend = <<Nemo>>
  /\ asr.env = SetTo(Whisper)
  /\ asr.config = Whisper

RingOf(ss, sid) == IF sid \in DOMAIN ss THEN ss[sid].audio_buffer_wav ELSE <<>>

\* The steps of a chunk in their order: the header patch leaves the handler
\* at the decoder call; a ring gets a chunk only when a decoder call has
\* returned, and the handler goes on to the transcriber with that chunk last
\* in the ring; align follows the transcriber, the update follows align,
\* runs once and before anything of the chunk is emitted.
StepsInOrder ==
  /\ \A s \in SIDs :
       (RingOf(sessions', s) # RingOf(sessions, s) /\ RingOf(sessions', s) # <<>>) =>
         /\ last'.op = "decoded"
         /\ last'.sid = s
  /\ last'.op = "audio_chunk" => handlers'[last'.chunk].pc = "decode"
  /\ last'.op \in {"decoded", "decode_failed"} => handlers[last'.chunk].pc = "decode"
  /\ last'.op = "decode_failed" => UNCHANGED sessions
  /\ last'.op = "decoded" =>
       LET ring == RingOf(sessions', last'.sid)
       IN /\ handlers'[last'.chunk].pc = "transcribe"
          /\ ring # <<>>
          /\ ring[Len(ring)] = Decode(handlers[last'.chunk].process_data)
  /\ last'.op \in {"transcribed", "transcribe_failed", "no_speech"} =>
       handlers[last'.chunk].pc = "transcribe"
  /\ last'.op = "transcribed" => handlers'[last'.chunk].pc = "align"
  /\ last'.op = "align" =>
       /\ handlers[last'.chunk].pc = "align"
       /\ handlers'[last'.chunk].pc = "update"
  /\ last'.op = "update" =>
       /\ handlers[last'.chunk].pc = "update"
       /\ handlers'[last'.chunk].pc = "emit"
       /\ handlers[last'.chunk].sent = <<>>
  /\ last'.op \in {"emit_word", "skip_word", "chunk_done"} =>
       handlers[last'.chunk].pc = "emit"

\* The anchor and the mode align was called with are the ones the map holds
\* for the session when the chunk's update begins.
AlignedOnStored ==
  last'.op = "update" =>
    /\ handlers[last'.chunk].anchor_pos = Looked(sessions, last'.sid).global_word_pos
    /\ Deref(last'.chunk).mode = Looked(sessions, last'.sid).mode

\* C26: within one chunk the steps happen in the order header patch, decode,
\* ring append, transcribe, align, update, emit: the ring is appended only
\* after a successful decode, the transcriber is called on a ring that holds
\* the current chunk, align is called with the session's anchor and mode as
\* they are before the chunk's update, and the update runs once, before the
\* chunk's first word_result.
C26_StepOrder == [][StepsInOrder /\ AlignedOnStored]_vars

\* C28: the chunk_done event of a chunk reports the state the session map
\* holds for the chunk's session id after the chunk's update: its
\* global_progress is the stored global_word_pos and its mode the stored
\* mode, also when the session was closed while the chunk was suspended.
C28_ChunkDoneReportsStored ==
  last.op = "chunk_done" =>
    /\ last.sid \in DOMAIN sessions
    /\ last.sent[Len(last.sent)].global_progress = sessions[last.sid].global_word_pos
    /\ last.sent[Len(last.sent)].mode = sessions[last.sid].mode

\* The anchor, mode, streak and last confidence a lookup of sid gives.
Progress(ss, sid) ==
  LET r == Looked(ss, sid)
  IN <<r.global_word_pos, r.mode, r.consecutive_low_confidence, r.last_confidence>>

\* The steps of a chunk's handler other than its update.
OtherChunkOps ==
  {"audio_chunk", "decoded", "transcribed", "align", "emit_word", "skip_word",
   "chunk_done"} \cup ErrorOps

\* C29: a chunk that ends in an error (decoder failure, transcriber failure,
\* empty transcript, no valid words, an exception before the update) ends
\* before its update, and no step of a chunk other than its update changes
\* the anchor, mode, streak or last confidence of any session.
C29_ErrorKeepsProgress ==
  [][/\ last'.op \in ErrorOps => Rank(handlers[last'.chunk].pc) < Rank("update")
     /\ last'.op \in OtherChunkOps =>
          \A s \in SIDs : Progress(sessions', s) = Progress(sessions, s)]_vars

\* A chunk has ended in an error after its handler had changed the record
\* (its audio is in the ring), in a session whose anchor and last
\* confidence an earlier chunk had set: they are still there.
C29_Witness ==
  /\ last.op \in {"transcribe_failed", "no_speech", "handler_failed"}
  /\ last.changed
  /\ last.sid \in DOMAIN sessions
  /\ sessions[last.sid].global_word_pos > 0
  /\ sessions[last.sid].last_confidence > 0
  /\ Len(sessions[last.sid].audio_buffer_wav) = 2

\* C30: with every chunk appended at the fixed duration of 2.0 seconds and
\* the default cap of 8.0 seconds, a ring never holds more than 4 chunks and
\* its duration counter is 2.0 times the number of chunks it holds, over any
\* sequence of chunks.
C30_PipelineRing ==
  \A s \in DOMAIN sessions :
     /\ Len(sessions[s].audio_buffer_wav) <= 4
     /\ Len(sessions[s].audio_buffer_wav) * CHUNK_DURATION <= AUDIO_BUFFER_MAX_DURATION
     /\ sessions[s].audio_buffer_duration = CHUNK_DURATION * Len(sessions[s].audio_buffer_wav)

\* A fifth chunk has been appended to a full ring: one chunk was evicted,
\* the ring holds 4 chunks and 8.0 seconds, the newest chunk last.
C30_Witness ==
  /\ last.op = "add_audio_to_buffer"
  /\ last.evicted = 1
  /\ Len(sessions[last.sid].audio_buffer_wav) = 4
  /\ sessions[last.sid].audio_buffer_duration = AUDIO_BUFFER_MAX_DURATION
  /\ sessions[last.sid].audio_buffer_wav[4] = last.wav
  /\ sessions[last.sid].audio_buffer_wav[3] # last.wav

\* C31: a transcriber call that raises RuntimeError is reported as
\* asr_error and one that raises any other exception as
\* transcription_failed, each with a message; the handler ends there, at the
\* transcriber call, the session map is left as it is, and align and
\* update_from_alignment only ever run for a chunk whose handler is still
\* there (the chunk of a handler that has ended does not come back).
C31_TranscriberErrors ==
  [][/\ last'.outcome \in {"RuntimeError", "Exception"} <=> last'.op = "transcribe_failed"
     /\ last'.op = "transcribe_failed" =>
          /\ Len(last'.sent) = 1
          /\ last'.sent[1].event = "word_result"
          /\ last'.sent[1].message
          /\ last'.outcome = "RuntimeError" => last'.sent[1].error = "asr_error"
          /\ last'.outcome = "Exception" => last'.sent[1].error = "transcription_failed"
          /\ handlers[last'.chunk].pc = "transcribe"
          /\ last'.chunk \notin DOMAIN handlers'
          /\ UNCHANGED sessions
     /\ last'.op \in {"align", "update"} =>
          /\ last'.chunk \in DOMAIN handlers
          /\ handlers[last'.chunk].pc = last'.op
     /\ \A c \in (DOMAIN handlers') \ (DOMAIN handlers) : c > arrived]_vars

\* The transcriber raised RuntimeError for the second chunk of a session
\* whose first chunk had been aligned: asr_error is reported and the anchor
\* and last confidence of the first chunk are still in place.
C31_Witness ==
  /\ last.op = "transcribe_failed"
  /\ last.outcome = "RuntimeError"
  /\ last.sent = <<ErrorEvent("asr_error", TRUE)>>
  /\ last.chunk = 2
  /\ last.sid \in DOMAIN sessions
  /\ sessions[last.sid].global_word_pos > 0
  /\ sessions[last.sid].last_confidence > 0

\* The steps with which a handler ends.
EndOps == ErrorOps \cup {"chunk_done"}

\* The handler of chunk c has just ended, with its outcome event emitted last.
Ended(c) ==
  /\ last.chunk = c
  /\ last.op \in EndOps
  /\ c \notin DOMAIN handlers
  /\ Len(last.sent) >= 1
  /\ IF last.op = "chunk_done"
     THEN last.sent[Len(last.sent)].event = "chunk_done"
     ELSE last.sent[Len(last.sent)].error # ""

\* C32: every audio_chunk handler ends in the end, with its outcome event
\* (an error event or chunk_done), given that the decoder and transcriber
\* calls return; and the eviction loop of a ring append evicts at most the
\* number of chunks stored after the append less one, so that the newest
\* chunk stays.
C32_HandlerTerminates ==
  /\ \A c \in Chunks : (c \in DOMAIN handlers) ~> Ended(c)
  /\ [][last'.op = "decoded" =>
          LET stored == Len(RingOf(sessions, last'.sid)) + 1
          IN /\ last'.evicted <= stored - 1
             /\ Len(RingOf(sessions', last'.sid)) = stored - last'.evicted]_vars

\* The second chunk sent to a session with a full ring has ended with
\* chunk_done, after each of the two appends had evicted one chunk: the ring
\* holds four chunks, the two new ones last.
C32_Witness ==
  /\ Ended(2)
  /\ last.op = "chunk_done"
  /\ handlers = << >>
  /\ Len(sessions[last.sid].audio_buffer_wav) = 4
  /\ sessions[last.sid].audio_buffer_wav[1] = Decode(First500(AudioData(-3)) \o AudioData(-1))

====
